---------------------------- MODULE Spec2Model ----------------------------
(***************************************************************************)
(* Model of skim's streaming ingestion core:                               *)
(*   src/src/helper/ingest.rs       ingest_loop, send                      *)
(*   src/src/helper/item_reader.rs  SkimItemReader, read_and_collect_from_ *)
(*                                  command, CommandCollector::invoke,     *)
(*                                  get_command_output                     *)
(* and of the header widget that shows the reserved items:                 *)
(*   src/src/header.rs              Header                                 *)
(* Bytes are natural numbers 0..255, byte strings are sequences of bytes,  *)
(* an item is the byte string of its text.                                 *)
(***************************************************************************)
EXTENDS Naturals, Sequences, FiniteSets, TLC

(***************************************************************************)
(* Bounds of the model.                                                    *)
(***************************************************************************)
\* longest input byte sequence of a Pipe source
MaxLen == 3
\* read errors (Interrupted or other) injected per source
MaxErrs == 1
\* cancel messages the caller keeps buffered on one handle (the specification
\* that fills the channel lifts this bound)
MaxSends == 1

\* longest selector string handed to with_nth / nth
MaxSel == 3
\* lines of the fixed header (--header)
MaxHeader == 2
\* reserved items of the item pool (--header-lines)
MaxReserved == 2
\* largest width and height of the canvas
MaxScreen == 4

(***************************************************************************)
(* Program constants.                                                      *)
(***************************************************************************)
CMD_CHANNEL_SIZE == 1024
\* b'\n', the default line_ending and read0(false)
NEWLINE == 10
\* b'\0', set by read0(true)
NUL == 0
\* b'\r', stripped by str::lines before a newline
CR == 13

\* b',', the separator with_nth and nth split their argument at
COMMA == 44

\* the sources that may be active at once on the shared counter
Sources == {1, 2}

\* the byte alphabet of the inputs: NUL, newline, 'a', and 0xFF (never valid
\* in UTF-8)
Bytes == {NUL, NEWLINE, 97, 255}

RECURSIVE SeqsUpTo(_, _)
SeqsUpTo(S, n) ==
    IF n = 0 THEN {<<>>}
    ELSE LET shorter == SeqsUpTo(S, n - 1)
         IN  shorter \cup {Append(q, b) : q \in shorter, b \in S}

\* every input of a Pipe source, up to the bound
AllInputs == SeqsUpTo(Bytes, MaxLen)

\* the inputs of the specification with several sources: one line, and a
\* byte that is not UTF-8
SmallInputs == {<<97, NEWLINE>>, <<255>>}

\* the terminators the options configure: default / read0(false), read0(true)
Terminators == {NEWLINE, NUL}

\* commands handed to invoke: what the child writes and its exit code when
\* nothing disturbs it.  EchoFail is "echo hi && echo err 1>&2 && exit 1".
EchoFail == [stdout |-> <<104, 105, NEWLINE>>, stderr |-> <<101, 114, 114, NEWLINE>>, code |-> 1]
EchoOk == [stdout |-> <<104, 105, NEWLINE>>, stderr |-> <<>>, code |-> 0]
Silent == [stdout |-> <<>>, stderr |-> <<>>, code |-> 0]
\* "echo w 1>&2; sleep 60": a warning, then a long run that ends well
WarnOk == [stdout |-> <<>>, stderr |-> <<119, NEWLINE>>, code |-> 0]
Commands == {EchoFail, EchoOk, Silent, WarnOk}
NoCmd == [stdout |-> <<>>, stderr |-> <<>>, code |-> 0]

\* the characters of selector strings: the comma, the digits '2' and '4',
\* and 'x' (no part of any range)
SelChars == {COMMA, 50, 52, 120}

\* every argument of with_nth / nth, up to the bound
SelectorStrings == SeqsUpTo(SelChars, MaxSel)

\* no call of with_nth / nth yet
NoCall == [method |-> "none", arg |-> <<>>]

(***************************************************************************)
(* Pure functions of the standard library the code calls.                  *)
(***************************************************************************)
\* memchr: index of the first b in buf, 0 when there is none
MemChr(b, buf) ==
    IF \E i \in 1..Len(buf) : buf[i] = b
    THEN CHOOSE i \in 1..Len(buf) : buf[i] = b /\ \A j \in 1..(i - 1) : buf[j] # b
    ELSE 0

Drop(buf, n) == SubSeq(buf, n + 1, Len(buf))

\* length of the UTF-8 sequence a lead byte opens, 0 for a byte that opens none
Utf8Width(b) ==
    IF b < 128 THEN 1
    ELSE IF b >= 194 /\ b <= 223 THEN 2
    ELSE IF b >= 224 /\ b <= 239 THEN 3
    ELSE IF b >= 240 /\ b <= 244 THEN 4
    ELSE 0

\* the range of the second byte of a sequence opened by lead
Utf8SecondOk(lead, b) ==
    IF lead = 224 THEN b >= 160 /\ b <= 191
    ELSE IF lead = 237 THEN b >= 128 /\ b <= 159
    ELSE IF lead = 240 THEN b >= 144 /\ b <= 191
    ELSE IF lead = 244 THEN b >= 128 /\ b <= 143
    ELSE b >= 128 /\ b <= 191

\* number of bytes of the valid sequence at the head of buf, 0 when the head
\* is not a complete valid sequence
Utf8Head(buf) ==
    LET w == Utf8Width(buf[1])
    IN  IF w = 0 \/ Len(buf) < w THEN 0
        ELSE IF w = 1 THEN 1
        ELSE IF /\ Utf8SecondOk(buf[1], buf[2])
                /\ \A k \in 3..w : buf[k] >= 128 /\ buf[k] <= 191
             THEN w
             ELSE 0

\* std::str::from_utf8_mut(..).is_ok()
RECURSIVE Utf8Valid(_)
Utf8Valid(buf) ==
    IF buf = <<>> THEN TRUE
    ELSE LET n == Utf8Head(buf)
         IN  n > 0 /\ Utf8Valid(Drop(buf, n))

\* bytes of the maximal invalid prefix that from_utf8_lossy replaces by one
\* U+FFFD: the lead byte and the continuation bytes that fit it
Utf8BadLen(buf) ==
    LET w == Utf8Width(buf[1])
    IN  IF w <= 1 \/ Len(buf) < 2 \/ ~Utf8SecondOk(buf[1], buf[2]) THEN 1
        ELSE IF w = 2 \/ Len(buf) < 3 \/ buf[3] < 128 \/ buf[3] > 191 THEN 2
        ELSE 3

\* String::from_utf8_lossy: invalid sequences become U+FFFD (EF BF BD)
RECURSIVE Utf8Lossy(_)
Utf8Lossy(buf) ==
    IF buf = <<>> THEN <<>>
    ELSE LET n == Utf8Head(buf)
         IN  IF n > 0 THEN SubSeq(buf, 1, n) \o Utf8Lossy(Drop(buf, n))
             ELSE <<239, 191, 189>> \o Utf8Lossy(Drop(buf, Utf8BadLen(buf)))

\* str::split_inclusive('\n'): pieces that end after each newline
RECURSIVE SplitInclusive(_)
SplitInclusive(buf) ==
    IF buf = <<>> THEN <<>>
    ELSE LET i == MemChr(NEWLINE, buf)
         IN  IF i = 0 THEN <<buf>>
             ELSE <<SubSeq(buf, 1, i)>> \o SplitInclusive(Drop(buf, i))

\* the map of str::lines: strip one "\n", then one "\r" before it
LinesMap(line) ==
    IF line # <<>> /\ line[Len(line)] = NEWLINE
    THEN LET l == SubSeq(line, 1, Len(line) - 1)
         IN  IF l # <<>> /\ l[Len(l)] = CR THEN SubSeq(l, 1, Len(l) - 1) ELSE l
    ELSE line

\* str::lines()
Lines(buf) ==
    LET pieces == SplitInclusive(buf)
    IN  [k \in 1..Len(pieces) |-> LinesMap(pieces[k])]

\* str::split(','): the pieces between the commas, empty ones included; one
\* empty piece for the empty string
RECURSIVE SplitComma(_)
SplitComma(str) ==
    LET i == MemChr(COMMA, str)
    IN  IF i = 0 THEN <<str>>
        ELSE <<SubSeq(str, 1, i - 1)>> \o SplitComma(Drop(str, i))

\* FieldRange::from_str(tok).is_some(): a range such as "2" or "24"; the
\* field module is not among the sources, the accepted tokens are the
\* non-empty runs of digits
FieldRangeFromStr(tok) ==
    tok # <<>> /\ \A k \in 1..Len(tok) : tok[k] \in {50, 52}

\* .filter_map(FieldRange::from_str).collect()
RECURSIVE FilterMap(_)
FilterMap(toks) ==
    IF toks = <<>> THEN <<>>
    ELSE IF FieldRangeFromStr(Head(toks))
         THEN <<Head(toks)>> \o FilterMap(Tail(toks))
         ELSE FilterMap(Tail(toks))

(***************************************************************************)
(* State.  Every variable but components_to_stop is a function of the      *)
(* source: one call of read_and_collect_from_command per source.           *)
(***************************************************************************)
VARIABLES
    components_to_stop, \* the shared AtomicUsize
    fresh_counter,  \* of_bufread: the Arc::new(AtomicUsize::new(0)) of the call
    entry,          \* how the source was opened: "none", "of_bufread",
                    \* "read_and_collect_from_command"
    use_ansi_color, \* option.use_ansi_color
    transform_fields, \* option.transform_fields
    matching_fields, \* option.matching_fields
    last_call,      \* the last of with_nth / nth called on the option, and its
                    \* argument
    mode,           \* the SendRawOrBuild of ingest_loop: "none", "Raw", "Build"
    callerPc,       \* the call: "idle", "spin", "returned", "panicked"
    kind,           \* CollectorInput: "none", "Pipe", "Command"
    started,        \* the AtomicBool of the call
    threadPc,       \* the spawned thread's position, "none" before the spawn
    input,          \* Pipe: all the bytes the source will deliver
    line_ending,    \* option.line_ending
    show_error,     \* option.show_error
    cmd,            \* Command: the command spawned
    pos,            \* Pipe: bytes the underlying reader has delivered
    rbuf,           \* Pipe: bytes buffered in the BufRead, not yet consumed
    bytes_buffer,   \* ingest_loop's bytes_buffer
    pending,        \* the lines iterator: lines not yet handed to send
    errs,           \* read errors delivered so far
    hardErr,        \* a read error other than Interrupted was delivered
    ended,          \* how ingest_loop ended: "", "eof", "read_error",
                    \* "send_failed", "panic"
    items,          \* the items sent on tx_item, in order
    tags,           \* how each of them was made: "Raw" (Box<str>), "Build"
                    \* (DefaultSkimItem), "String" (a line of standard error)
    rxAlive,        \* the consumer still holds rx_item
    chanLen,        \* messages buffered in the cancellation channel
    rxIntAlive,     \* rx_interrupt is not dropped yet
    handle,         \* the returned tx_interrupt: "none", "held", "dropped"
    sendBlocked,    \* a send of the caller is blocked on the full channel
    childState,     \* "none", "running", "zombie" (exited, not waited),
                    \* "reaped"
    childStatus,    \* exit status: "none", "ok", "fail", "signal"
    childStderr,    \* what the child wrote to its standard error
    header,         \* Header.header: the number of its lines
    reverse,        \* Header.reverse
    item_pool,      \* Header.item_pool, a Weak<ItemPool>: "dangling" (Weak::new
                    \* or a dropped pool) or "live"
    reserved,       \* ItemPool::reserved(): one Weak per reserved item, TRUE
                    \* while the item can be upgraded
    canvas,         \* the size of the canvas of the last draw
    draw_result,    \* what the last draw returned: "none", "ok", "width",
                    \* "height"
    rows            \* the canvas rows the last draw printed reserved items on

optVars == <<use_ansi_color, transform_fields, matching_fields, last_call>>
cfgVars == <<kind, entry, input, line_ending, show_error, cmd, optVars, mode>>
readVars == <<pos, rbuf, bytes_buffer, errs, hardErr>>
itemVars == <<pending, items, tags>>
cancelVars == <<chanLen, rxIntAlive, handle, sendBlocked>>
childVars == <<childState, childStatus, childStderr>>
headerVars == <<header, reverse, item_pool, reserved, canvas, draw_result, rows>>
vars == <<headerVars, components_to_stop, fresh_counter, callerPc, started, threadPc, cfgVars, readVars,
          ended, itemVars, rxAlive, cancelVars, childVars>>

Init ==
    /\ components_to_stop = 0
    /\ fresh_counter = [s \in Sources |-> 0]
    /\ entry = [s \in Sources |-> "none"]
    /\ use_ansi_color = [s \in Sources |-> FALSE]
    /\ transform_fields = [s \in Sources |-> <<>>]
    /\ matching_fields = [s \in Sources |-> <<>>]
    /\ last_call = [s \in Sources |-> NoCall]
    /\ mode = [s \in Sources |-> "none"]
    /\ tags = [s \in Sources |-> <<>>]
    /\ callerPc = [s \in Sources |-> "idle"]
    /\ kind = [s \in Sources |-> "none"]
    /\ started = [s \in Sources |-> FALSE]
    /\ threadPc = [s \in Sources |-> "none"]
    /\ input = [s \in Sources |-> <<>>]
    /\ line_ending = [s \in Sources |-> NEWLINE]
    /\ show_error = [s \in Sources |-> FALSE]
    /\ cmd = [s \in Sources |-> NoCmd]
    /\ pos = [s \in Sources |-> 0]
    /\ rbuf = [s \in Sources |-> <<>>]
    /\ bytes_buffer = [s \in Sources |-> <<>>]
    /\ pending = [s \in Sources |-> <<>>]
    /\ errs = [s \in Sources |-> 0]
    /\ hardErr = [s \in Sources |-> FALSE]
    /\ ended = [s \in Sources |-> ""]
    /\ items = [s \in Sources |-> <<>>]
    /\ rxAlive = [s \in Sources |-> FALSE]
    /\ chanLen = [s \in Sources |-> 0]
    /\ rxIntAlive = [s \in Sources |-> FALSE]
    /\ handle = [s \in Sources |-> "none"]
    /\ sendBlocked = [s \in Sources |-> FALSE]
    /\ childState = [s \in Sources |-> "none"]
    /\ childStatus = [s \in Sources |-> "none"]
    /\ childStderr = [s \in Sources |-> <<>>]
    /\ header = 0
    /\ reverse = FALSE
    /\ item_pool = "dangling"
    /\ reserved = <<>>
    /\ canvas = <<0, 0>>
    /\ draw_result = "none"
    /\ rows = <<>>

Min(a, b) == IF a < b THEN a ELSE b

(***************************************************************************)
(* The byte source of a Pipe: a BufRead over a reader that delivers the    *)
(* input in chunks of any size.                                            *)
(***************************************************************************)
\* what fill_buf() may return with Ok: the bytes still buffered, else one
\* read of the reader: any non-empty chunk of what is left, or nothing at
\* end of input
ReadChunks(s) ==
    IF rbuf[s] # <<>> THEN {rbuf[s]}
    ELSE IF pos[s] = Len(input[s]) THEN {<<>>}
    ELSE {SubSeq(input[s], pos[s] + 1, pos[s] + k) : k \in 1..(Len(input[s]) - pos[s])}

\* the reader's position after fill_buf() returned avail
PosAfter(s, avail) == IF rbuf[s] # <<>> THEN pos[s] ELSE pos[s] + Len(avail)

\* a read of the reader may fail instead (bounded)
MayFail(s) == rbuf[s] = <<>> /\ errs[s] < MaxErrs

(***************************************************************************)
(* ingest_loop, one action per read of the source and per line sent.       *)
(***************************************************************************)
\* ingest_loop ends (break, or the end of the function): the Pipe thread goes
\* on with its cancel signal, the thread of raw_bufread ends
AfterIngest(s) == IF mode[s] = "Raw" THEN "done" ELSE "p_send"

\* source.fill_buf(), extend_from_slice, consume(bytes_buffer.len())
FillBuf(s) ==
    /\ threadPc[s] = "fill"
    /\ \/ \E avail \in ReadChunks(s) :
            LET bb == bytes_buffer[s] \o avail
            IN  /\ bytes_buffer' = [bytes_buffer EXCEPT ![s] = bb]
                /\ rbuf' = [rbuf EXCEPT ![s] = Drop(avail, Min(Len(bb), Len(avail)))]
                /\ pos' = [pos EXCEPT ![s] = PosAfter(s, avail)]
                /\ threadPc' = [threadPc EXCEPT ![s] = "read_until"]
                /\ UNCHANGED <<errs, hardErr, ended>>
       \/ \* ErrorKind::Interrupted => continue
          /\ MayFail(s)
          /\ errs' = [errs EXCEPT ![s] = @ + 1]
          /\ UNCHANGED <<bytes_buffer, rbuf, pos, hardErr, ended, threadPc>>
       \/ \* any other error => break
          /\ MayFail(s)
          /\ errs' = [errs EXCEPT ![s] = @ + 1]
          /\ hardErr' = [hardErr EXCEPT ![s] = TRUE]
          /\ ended' = [ended EXCEPT ![s] = "read_error"]
          /\ threadPc' = [threadPc EXCEPT ![s] = AfterIngest(s)]
          /\ UNCHANGED <<bytes_buffer, rbuf, pos>>
    /\ UNCHANGED <<headerVars, components_to_stop, fresh_counter, callerPc, started, cfgVars, itemVars,
                   rxAlive, cancelVars, childVars>>

\* let _ = source.read_until(line_ending, &mut bytes_buffer): one round of
\* its loop (fill_buf, memchr, extend, consume) per step
ReadUntil(s) ==
    /\ threadPc[s] = "read_until"
    /\ \/ \E avail \in ReadChunks(s) :
            LET i == MemChr(line_ending[s], avail)
                used == IF i > 0 THEN i ELSE Len(avail)
            IN  /\ bytes_buffer' = [bytes_buffer EXCEPT ![s] = @ \o SubSeq(avail, 1, used)]
                /\ rbuf' = [rbuf EXCEPT ![s] = Drop(avail, used)]
                /\ pos' = [pos EXCEPT ![s] = PosAfter(s, avail)]
                /\ threadPc' = [threadPc EXCEPT ![s] =
                       IF i > 0 \/ used = 0 THEN "decode" ELSE "read_until"]
                /\ UNCHANGED <<errs, hardErr>>
       \/ \* Interrupted: read_until retries
          /\ MayFail(s)
          /\ errs' = [errs EXCEPT ![s] = @ + 1]
          /\ UNCHANGED <<bytes_buffer, rbuf, pos, hardErr, threadPc>>
       \/ \* any other error: read_until returns Err, which is dropped
          /\ MayFail(s)
          /\ errs' = [errs EXCEPT ![s] = @ + 1]
          /\ hardErr' = [hardErr EXCEPT ![s] = TRUE]
          /\ threadPc' = [threadPc EXCEPT ![s] = "decode"]
          /\ UNCHANGED <<bytes_buffer, rbuf, pos>>
    /\ UNCHANGED <<headerVars, components_to_stop, fresh_counter, callerPc, started, cfgVars, ended,
                   itemVars, rxAlive, cancelVars, childVars>>

\* if bytes_buffer.is_empty() { break }; from_utf8_mut(..).expect(..).lines()
Decode(s) ==
    /\ threadPc[s] = "decode"
    /\ IF bytes_buffer[s] = <<>>
       THEN /\ ended' = [ended EXCEPT ![s] = "eof"]
            /\ threadPc' = [threadPc EXCEPT ![s] = AfterIngest(s)]
            /\ UNCHANGED pending
       ELSE IF ~Utf8Valid(bytes_buffer[s])
       THEN \* expect("Could not convert bytes to valid UTF8.") panics: the
            \* thread unwinds
            /\ ended' = [ended EXCEPT ![s] = "panic"]
            /\ threadPc' = [threadPc EXCEPT ![s] = "panicked"]
            /\ UNCHANGED pending
       ELSE /\ pending' = [pending EXCEPT ![s] = Lines(bytes_buffer[s])]
            /\ threadPc' = [threadPc EXCEPT ![s] = "publish"]
            /\ UNCHANGED ended
    /\ UNCHANGED <<headerVars, components_to_stop, fresh_counter, callerPc, started, cfgVars, readVars,
                   items, tags, rxAlive, cancelVars, childVars>>

\* mutant of Publish: a failed send is ignored (let _ = send(..)) and the
\* loop goes on with the next line
PublishIgnoringFailure(s) ==
    /\ threadPc[s] = "publish"
    /\ IF pending[s] = <<>>
       THEN /\ bytes_buffer' = [bytes_buffer EXCEPT ![s] = <<>>]
            /\ threadPc' = [threadPc EXCEPT ![s] = "fill"]
            /\ UNCHANGED <<pending, items, tags>>
       ELSE /\ items' = [items EXCEPT ![s] =
                   IF rxAlive[s] THEN Append(@, Head(pending[s])) ELSE @]
            /\ tags' = [tags EXCEPT ![s] =
                   IF rxAlive[s] THEN Append(@, mode[s]) ELSE @]
            /\ pending' = [pending EXCEPT ![s] = Tail(@)]
            /\ UNCHANGED <<bytes_buffer, threadPc>>
    /\ UNCHANGED <<headerVars, components_to_stop, fresh_counter, callerPc, started, cfgVars, pos, rbuf,
                   errs, hardErr, ended, rxAlive, cancelVars, childVars>>

\* try_for_each(|line| send(line, &opts, &tx_item)): the next line, made
\* into an item as opts says (match opts in send), or the end of the iterator
\* and bytes_buffer.clear()
Publish(s) ==
    /\ threadPc[s] = "publish"
    /\ IF pending[s] = <<>>
       THEN /\ bytes_buffer' = [bytes_buffer EXCEPT ![s] = <<>>]
            /\ threadPc' = [threadPc EXCEPT ![s] = "fill"]
            /\ UNCHANGED <<pending, items, tags, ended>>
       ELSE IF rxAlive[s]
       THEN /\ items' = [items EXCEPT ![s] = Append(@, Head(pending[s]))]
            /\ tags' = [tags EXCEPT ![s] = Append(@, mode[s])]
            /\ pending' = [pending EXCEPT ![s] = Tail(@)]
            /\ UNCHANGED <<bytes_buffer, threadPc, ended>>
       ELSE \* tx_item.send fails: Err(_err) => break
            /\ ended' = [ended EXCEPT ![s] = "send_failed"]
            /\ threadPc' = [threadPc EXCEPT ![s] = AfterIngest(s)]
            /\ UNCHANGED <<bytes_buffer, pending, items, tags>>
    /\ UNCHANGED <<headerVars, components_to_stop, fresh_counter, callerPc, started, cfgVars, pos, rbuf,
                   errs, hardErr, rxAlive, cancelVars, childVars>>

(***************************************************************************)
(* The thread of a Pipe source.                                            *)
(***************************************************************************)
\* components_to_stop.fetch_add(1, SeqCst), on the counter the call was given:
\* the caller's, or the fresh one of of_bufread
PipeAdd(s) ==
    /\ threadPc[s] = "p_add"
    /\ IF entry[s] = "of_bufread"
       THEN /\ fresh_counter' = [fresh_counter EXCEPT ![s] = @ + 1]
            /\ UNCHANGED components_to_stop
       ELSE /\ components_to_stop' = components_to_stop + 1
            /\ UNCHANGED fresh_counter
    /\ threadPc' = [threadPc EXCEPT ![s] = "p_store"]
    /\ UNCHANGED <<headerVars, callerPc, started, cfgVars, readVars, ended, itemVars,
                   rxAlive, cancelVars, childVars>>

\* started_clone.store(true, SeqCst); ingest_loop starts
PipeStore(s) ==
    /\ threadPc[s] = "p_store"
    /\ started' = [started EXCEPT ![s] = TRUE]
    /\ threadPc' = [threadPc EXCEPT ![s] = "fill"]
    /\ UNCHANGED <<headerVars, components_to_stop, fresh_counter, callerPc, cfgVars, readVars, ended,
                   itemVars, rxAlive, cancelVars, childVars>>

\* let _ = tx_interrupt_clone.send(1): buffered while rx_interrupt lives
\* (blocking while the channel is full), an ignored error once it is dropped
PipeSendCancel(s) ==
    /\ threadPc[s] = "p_send"
    /\ IF rxIntAlive[s]
       THEN /\ chanLen[s] < CMD_CHANNEL_SIZE
            /\ chanLen' = [chanLen EXCEPT ![s] = @ + 1]
       ELSE UNCHANGED chanLen
    /\ threadPc' = [threadPc EXCEPT ![s] = "p_sub"]
    /\ UNCHANGED <<headerVars, components_to_stop, fresh_counter, callerPc, started, cfgVars, readVars,
                   ended, itemVars, rxAlive, rxIntAlive, handle, sendBlocked,
                   childVars>>

\* components_to_stop.fetch_sub(1, SeqCst); the thread ends
PipeSub(s) ==
    /\ threadPc[s] = "p_sub"
    /\ IF entry[s] = "of_bufread"
       THEN /\ fresh_counter' = [fresh_counter EXCEPT ![s] = @ - 1]
            /\ UNCHANGED components_to_stop
       ELSE /\ components_to_stop' = components_to_stop - 1
            /\ UNCHANGED fresh_counter
    /\ threadPc' = [threadPc EXCEPT ![s] = "done"]
    /\ UNCHANGED <<headerVars, callerPc, started, cfgVars, readVars, ended, itemVars,
                   rxAlive, cancelVars, childVars>>

(***************************************************************************)
(* The child process of a Command source (the environment).                *)
(***************************************************************************)
ExitStatus(c) == IF c.code = 0 THEN "ok" ELSE "fail"

\* The child runs to its end.  read_and_collect_from_command keeps only the
\* Child of get_command_output's pair, so the read end of the child's standard
\* output is closed at once: a child that writes there either wrote before
\* the close and goes on, or dies of the broken pipe before it writes anything
\* to its standard error.
ChildExit(s) ==
    /\ childState[s] = "running"
    /\ childState' = [childState EXCEPT ![s] = "zombie"]
    /\ \/ /\ childStatus' = [childStatus EXCEPT ![s] = ExitStatus(cmd[s])]
          /\ childStderr' = [childStderr EXCEPT ![s] = cmd[s].stderr]
       \/ /\ cmd[s].stdout # <<>>
          /\ childStatus' = [childStatus EXCEPT ![s] = "signal"]
          /\ childStderr' = [childStderr EXCEPT ![s] = <<>>]
    /\ UNCHANGED <<headerVars, components_to_stop, fresh_counter, callerPc, started, threadPc, cfgVars,
                   readVars, ended, itemVars, rxAlive, cancelVars>>

(***************************************************************************)
(* The watcher thread of a Command source.                                 *)
(***************************************************************************)
\* components_to_stop_clone.fetch_add(1, SeqCst)
WatcherAdd(s) ==
    /\ threadPc[s] = "w_add"
    /\ components_to_stop' = components_to_stop + 1
    /\ threadPc' = [threadPc EXCEPT ![s] = "w_store"]
    /\ UNCHANGED <<headerVars, fresh_counter, callerPc, started, cfgVars, readVars, ended,
                   itemVars, rxAlive, cancelVars, childVars>>

\* started_clone.store(true, SeqCst)
WatcherStore(s) ==
    /\ threadPc[s] = "w_store"
    /\ started' = [started EXCEPT ![s] = TRUE]
    /\ threadPc' = [threadPc EXCEPT ![s] = "w_recv"]
    /\ UNCHANGED <<headerVars, components_to_stop, fresh_counter, callerPc, cfgVars, readVars, ended,
                   itemVars, rxAlive, cancelVars, childVars>>

\* mutant of WatcherRecv: recv() returns only with a message and stays
\* blocked on a channel whose every Sender is dropped
WatcherRecvValueOnly(s) ==
    /\ threadPc[s] = "w_recv"
    /\ chanLen[s] > 0
    /\ chanLen' = [chanLen EXCEPT ![s] = @ - 1]
    /\ threadPc' = [threadPc EXCEPT ![s] = "w_kill"]
    /\ UNCHANGED <<headerVars, components_to_stop, fresh_counter, callerPc, started, cfgVars, readVars,
                   ended, itemVars, rxAlive, rxIntAlive, handle, sendBlocked,
                   childVars>>

\* let _ = rx_interrupt.recv(): a buffered message, or the error of a channel
\* that is empty with every Sender dropped; blocks otherwise
WatcherRecv(s) ==
    /\ threadPc[s] = "w_recv"
    /\ chanLen[s] > 0 \/ handle[s] = "dropped"
    /\ chanLen' = [chanLen EXCEPT ![s] = IF @ > 0 THEN @ - 1 ELSE 0]
    /\ threadPc' = [threadPc EXCEPT ![s] = "w_kill"]
    /\ UNCHANGED <<headerVars, components_to_stop, fresh_counter, callerPc, started, cfgVars, readVars,
                   ended, itemVars, rxAlive, rxIntAlive, handle, sendBlocked,
                   childVars>>

\* mutant of WatcherKill: the child is not killed before it is waited for
WatcherKillSkipped(s) ==
    /\ threadPc[s] = "w_kill"
    /\ threadPc' = [threadPc EXCEPT ![s] = "w_wait"]
    /\ UNCHANGED <<headerVars, components_to_stop, fresh_counter, callerPc, started, cfgVars, readVars,
                   ended, itemVars, rxAlive, cancelVars, childVars>>

\* let _ = child.kill(): a running child dies of the signal, having written
\* none or all of its standard error; a child that has exited is left as is
WatcherKill(s) ==
    /\ threadPc[s] = "w_kill"
    /\ IF childState[s] = "running"
       THEN /\ childState' = [childState EXCEPT ![s] = "zombie"]
            /\ childStatus' = [childStatus EXCEPT ![s] = "signal"]
            /\ \E e \in {<<>>, cmd[s].stderr} :
                   childStderr' = [childStderr EXCEPT ![s] = e]
       ELSE UNCHANGED childVars
    /\ threadPc' = [threadPc EXCEPT ![s] = "w_wait"]
    /\ UNCHANGED <<headerVars, components_to_stop, fresh_counter, callerPc, started, cfgVars, readVars,
                   ended, itemVars, rxAlive, cancelVars>>

\* mutant of WatcherWait: the child is not waited for
WatcherWaitSkipped(s) ==
    /\ threadPc[s] = "w_wait"
    /\ threadPc' = [threadPc EXCEPT ![s] = IF show_error[s] THEN "w_err" ELSE "w_sub"]
    /\ UNCHANGED <<headerVars, components_to_stop, fresh_counter, callerPc, started, cfgVars, readVars,
                   ended, itemVars, rxAlive, cancelVars, childVars>>

\* let _ = child.wait(): blocks until the child has exited, and reaps it;
\* then if send_error { .. }
WatcherWait(s) ==
    /\ threadPc[s] = "w_wait"
    /\ childState[s] = "zombie"
    /\ childState' = [childState EXCEPT ![s] = "reaped"]
    /\ threadPc' = [threadPc EXCEPT ![s] = IF show_error[s] THEN "w_err" ELSE "w_sub"]
    /\ UNCHANGED <<headerVars, components_to_stop, fresh_counter, callerPc, started, cfgVars, readVars,
                   ended, itemVars, rxAlive, cancelVars, childStatus,
                   childStderr>>

\* child.try_wait().map(|os| os.map(|s| !s.success()).unwrap_or(true))
\*     .unwrap_or(false)
HasError(s) ==
    IF childState[s] = "running" THEN TRUE ELSE childStatus[s] # "ok"

\* if has_error { wait_with_output(); String::from_utf8_lossy(&output.stderr)
\* .lines() }
WatcherErr(s) ==
    /\ threadPc[s] = "w_err"
    /\ IF HasError(s)
       THEN /\ \E lossy \in {Utf8Lossy(childStderr[s])} :
                   \E lines \in {Lines(lossy)} :
                       pending' = [pending EXCEPT ![s] = lines]
            /\ threadPc' = [threadPc EXCEPT ![s] = "w_emit"]
       ELSE /\ threadPc' = [threadPc EXCEPT ![s] = "w_sub"]
            /\ UNCHANGED pending
    /\ UNCHANGED <<headerVars, components_to_stop, fresh_counter, callerPc, started, cfgVars, readVars,
                   ended, items, tags, rxAlive, cancelVars, childVars>>

\* for line in .. { let _ = tx_item.send(Arc::new(line.to_string())) }
WatcherEmit(s) ==
    /\ threadPc[s] = "w_emit"
    /\ IF pending[s] = <<>>
       THEN /\ threadPc' = [threadPc EXCEPT ![s] = "w_sub"]
            /\ UNCHANGED <<pending, items, tags>>
       ELSE /\ items' = [items EXCEPT ![s] =
                   IF rxAlive[s] THEN Append(@, Head(pending[s])) ELSE @]
            /\ tags' = [tags EXCEPT ![s] =
                   IF rxAlive[s] THEN Append(@, "String") ELSE @]
            /\ pending' = [pending EXCEPT ![s] = Tail(@)]
            /\ UNCHANGED threadPc
    /\ UNCHANGED <<headerVars, components_to_stop, fresh_counter, callerPc, started, cfgVars, readVars,
                   ended, rxAlive, cancelVars, childVars>>

\* components_to_stop_clone.fetch_sub(1, SeqCst)
WatcherSub(s) ==
    /\ threadPc[s] = "w_sub"
    /\ components_to_stop' = components_to_stop - 1
    /\ threadPc' = [threadPc EXCEPT ![s] = "w_exit"]
    /\ UNCHANGED <<headerVars, fresh_counter, callerPc, started, cfgVars, readVars, ended,
                   itemVars, rxAlive, cancelVars, childVars>>

\* the closure returns: rx_interrupt (and tx_item) are dropped, the messages
\* still buffered go with the receiver
WatcherExit(s) ==
    /\ threadPc[s] = "w_exit"
    /\ rxIntAlive' = [rxIntAlive EXCEPT ![s] = FALSE]
    /\ chanLen' = [chanLen EXCEPT ![s] = 0]
    /\ threadPc' = [threadPc EXCEPT ![s] = "done"]
    /\ UNCHANGED <<headerVars, components_to_stop, fresh_counter, callerPc, started, cfgVars, readVars,
                   ended, itemVars, rxAlive, handle, sendBlocked, childVars>>

(***************************************************************************)
(* SkimItemReaderOption and of_bufread.                                    *)
(***************************************************************************)
\* ansi(enable)
Ansi(s) ==
    /\ callerPc[s] = "idle"
    /\ \E enable \in BOOLEAN :
          use_ansi_color' = [use_ansi_color EXCEPT ![s] = enable]
    /\ UNCHANGED <<headerVars, components_to_stop, fresh_counter, callerPc, started, threadPc,
                   kind, entry, input, line_ending, show_error, cmd,
                   transform_fields, matching_fields, last_call, mode, readVars,
                   ended, itemVars, rxAlive, cancelVars, childVars>>

\* mutant of WithNthFields: an argument with no accepted token leaves the
\* selector as it was
WithNthFieldsKeepOnEmpty(old, with_nth) ==
    IF with_nth # <<>> /\ FilterMap(SplitComma(with_nth)) # <<>>
    THEN FilterMap(SplitComma(with_nth))
    ELSE old

\* the transform_fields of with_nth(with_nth), the matching_fields of
\* nth(nth): if !arg.is_empty() { arg.split(',').filter_map(from_str) }
WithNthFields(old, with_nth) ==
    IF with_nth # <<>> THEN FilterMap(SplitComma(with_nth)) ELSE old

\* with_nth(with_nth)
WithNth(s, strs) ==
    /\ callerPc[s] = "idle"
    /\ \E with_nth \in strs :
          /\ transform_fields' = [transform_fields EXCEPT ![s] =
                 WithNthFields(@, with_nth)]
          /\ last_call' = [last_call EXCEPT ![s] =
                 [method |-> "with_nth", arg |-> with_nth]]
    /\ UNCHANGED <<headerVars, components_to_stop, fresh_counter, callerPc, started, threadPc,
                   kind, entry, input, line_ending, show_error, cmd,
                   use_ansi_color, matching_fields, mode, readVars, ended,
                   itemVars, rxAlive, cancelVars, childVars>>

\* nth(nth)
Nth(s, strs) ==
    /\ callerPc[s] = "idle"
    /\ \E nth \in strs :
          /\ matching_fields' = [matching_fields EXCEPT ![s] =
                 WithNthFields(@, nth)]
          /\ last_call' = [last_call EXCEPT ![s] =
                 [method |-> "nth", arg |-> nth]]
    /\ UNCHANGED <<headerVars, components_to_stop, fresh_counter, callerPc, started, threadPc,
                   kind, entry, input, line_ending, show_error, cmd,
                   use_ansi_color, transform_fields, mode, readVars, ended,
                   itemVars, rxAlive, cancelVars, childVars>>

\* mutant of is_simple: the matching fields are not looked at
is_simple_ignoring_nth(s) ==
    ~use_ansi_color[s] /\ transform_fields[s] = <<>>

\* is_simple
is_simple(s) ==
    ~use_ansi_color[s] /\ matching_fields[s] = <<>> /\ transform_fields[s] = <<>>

\* of_bufread(source): raw_bufread when the option is simple (unbounded(),
\* thread::spawn of ingest_loop with SendRawOrBuild::Raw, no counter, no
\* cancellation channel, no wait), else read_and_collect_from_command with a
\* fresh counter and CollectorInput::Pipe
OfBufread(s, inputs, terms) ==
    /\ callerPc[s] = "idle"
    /\ \E inp \in inputs, le \in terms :
          /\ input' = [input EXCEPT ![s] = inp]
          /\ line_ending' = [line_ending EXCEPT ![s] = le]
    /\ entry' = [entry EXCEPT ![s] = "of_bufread"]
    /\ rxAlive' = [rxAlive EXCEPT ![s] = TRUE]
    /\ IF is_simple(s)
       THEN /\ mode' = [mode EXCEPT ![s] = "Raw"]
            /\ threadPc' = [threadPc EXCEPT ![s] = "fill"]
            /\ callerPc' = [callerPc EXCEPT ![s] = "returned"]
            /\ UNCHANGED <<kind, rxIntAlive>>
       ELSE /\ mode' = [mode EXCEPT ![s] = "Build"]
            /\ kind' = [kind EXCEPT ![s] = "Pipe"]
            /\ rxIntAlive' = [rxIntAlive EXCEPT ![s] = TRUE]
            /\ threadPc' = [threadPc EXCEPT ![s] = "p_add"]
            /\ callerPc' = [callerPc EXCEPT ![s] = "spin"]
    /\ UNCHANGED <<headerVars, components_to_stop, fresh_counter, started, show_error, cmd,
                   optVars, readVars, ended, itemVars, chanLen, handle,
                   sendBlocked, childVars>>

(***************************************************************************)
(* read_and_collect_from_command and its caller.                           *)
(***************************************************************************)
\* read_and_collect_from_command(components_to_stop, CollectorInput::Pipe(
\* source)): bounded(CMD_CHANNEL_SIZE), unbounded(), thread::spawn of the
\* thread that runs ingest_loop with SendRawOrBuild::Build, then the busy wait
CallPipe(s, inputs, terms) ==
    /\ callerPc[s] = "idle"
    /\ \E inp \in inputs, le \in terms :
          /\ input' = [input EXCEPT ![s] = inp]
          /\ line_ending' = [line_ending EXCEPT ![s] = le]
    /\ kind' = [kind EXCEPT ![s] = "Pipe"]
    /\ entry' = [entry EXCEPT ![s] = "read_and_collect_from_command"]
    /\ mode' = [mode EXCEPT ![s] = "Build"]
    /\ rxAlive' = [rxAlive EXCEPT ![s] = TRUE]
    /\ rxIntAlive' = [rxIntAlive EXCEPT ![s] = TRUE]
    /\ threadPc' = [threadPc EXCEPT ![s] = "p_add"]
    /\ callerPc' = [callerPc EXCEPT ![s] = "spin"]
    /\ UNCHANGED <<headerVars, components_to_stop, fresh_counter, started, show_error, cmd,
                   optVars, readVars,
                   ended, itemVars, chanLen, handle, sendBlocked, childVars>>

\* invoke: CollectorInput::Command(cmd): get_command_output(&cmd) spawns the
\* shell, its .0 keeps the Child and drops the reader of its standard
\* output; thread::spawn of the watcher, then the busy wait
Invoke(s, cmds, errOpts) ==
    /\ callerPc[s] = "idle"
    /\ \E c \in cmds, se \in errOpts :
          /\ cmd' = [cmd EXCEPT ![s] = c]
          /\ show_error' = [show_error EXCEPT ![s] = se]
    /\ kind' = [kind EXCEPT ![s] = "Command"]
    /\ entry' = [entry EXCEPT ![s] = "read_and_collect_from_command"]
    /\ childState' = [childState EXCEPT ![s] = "running"]
    /\ rxAlive' = [rxAlive EXCEPT ![s] = TRUE]
    /\ rxIntAlive' = [rxIntAlive EXCEPT ![s] = TRUE]
    /\ threadPc' = [threadPc EXCEPT ![s] = "w_add"]
    /\ callerPc' = [callerPc EXCEPT ![s] = "spin"]
    /\ UNCHANGED <<headerVars, components_to_stop, fresh_counter, started, input, line_ending,
                   optVars, mode, readVars, ended, itemVars, chanLen, handle, sendBlocked,
                   childStatus, childStderr>>

\* mutant of InvokeSpawnFails: the watcher is spawned before the command,
\* and the failure of the spawn leaves it running
InvokeSpawnFailsAfterThread(s) ==
    /\ callerPc[s] = "idle"
    /\ kind' = [kind EXCEPT ![s] = "Command"]
    /\ entry' = [entry EXCEPT ![s] = "read_and_collect_from_command"]
    /\ threadPc' = [threadPc EXCEPT ![s] = "w_add"]
    /\ callerPc' = [callerPc EXCEPT ![s] = "panicked"]
    /\ UNCHANGED <<headerVars, components_to_stop, fresh_counter, started, input,
                   line_ending, show_error, cmd, optVars, mode, readVars, ended,
                   itemVars, rxAlive, cancelVars, childVars>>

\* get_command_output fails (the shell cannot be spawned):
\* expect("command not found") panics in the caller
InvokeSpawnFails(s) ==
    /\ callerPc[s] = "idle"
    /\ kind' = [kind EXCEPT ![s] = "Command"]
    /\ entry' = [entry EXCEPT ![s] = "read_and_collect_from_command"]
    /\ callerPc' = [callerPc EXCEPT ![s] = "panicked"]
    /\ UNCHANGED <<headerVars, components_to_stop, fresh_counter, started, threadPc, input,
                   line_ending, show_error, cmd, optVars, mode, readVars, ended,
                   itemVars, rxAlive, cancelVars, childVars>>

\* mutant of SpinDone: the call returns without waiting for the flag
SpinDoneNoWait(s) == TRUE

\* while !started.load(SeqCst) {}: the condition that ends the busy wait
SpinDone(s) == started[s]

\* the busy wait ends and the call returns (rx_item, tx_interrupt, handle);
\* in the Pipe arm rx_interrupt was moved nowhere and is dropped here;
\* of_bufread binds the Sender to _tx_item and drops it as it returns
Return(s) ==
    /\ callerPc[s] = "spin"
    /\ SpinDone(s)
    /\ callerPc' = [callerPc EXCEPT ![s] = "returned"]
    /\ handle' = [handle EXCEPT ![s] =
           IF entry[s] = "of_bufread" THEN "dropped" ELSE "held"]
    /\ IF kind[s] = "Pipe"
       THEN /\ rxIntAlive' = [rxIntAlive EXCEPT ![s] = FALSE]
            /\ chanLen' = [chanLen EXCEPT ![s] = 0]
       ELSE UNCHANGED <<rxIntAlive, chanLen>>
    /\ UNCHANGED <<headerVars, components_to_stop, fresh_counter, started, threadPc, cfgVars, readVars,
                   ended, itemVars, rxAlive, sendBlocked, childVars>>

\* the caller sends on the returned Sender<i32> (crossbeam bounded channel):
\* an error once the receiver is dropped (nothing changes), buffered while
\* there is room, blocked while the channel is full
CallerSend(s, limit) ==
    /\ callerPc[s] = "returned"
    /\ handle[s] = "held"
    /\ ~sendBlocked[s]
    /\ IF ~rxIntAlive[s]
       THEN UNCHANGED <<chanLen, sendBlocked>>
       ELSE IF chanLen[s] < CMD_CHANNEL_SIZE
       THEN /\ chanLen[s] < limit
            /\ chanLen' = [chanLen EXCEPT ![s] = @ + 1]
            /\ UNCHANGED sendBlocked
       ELSE /\ sendBlocked' = [sendBlocked EXCEPT ![s] = TRUE]
            /\ UNCHANGED chanLen
    /\ UNCHANGED <<headerVars, components_to_stop, fresh_counter, callerPc, started, threadPc, cfgVars,
                   readVars, ended, itemVars, rxAlive, rxIntAlive, handle,
                   childVars>>

\* a blocked send ends: buffered once there is room, an error once the
\* receiver is dropped
CallerSendWake(s) ==
    /\ sendBlocked[s]
    /\ sendBlocked' = [sendBlocked EXCEPT ![s] = FALSE]
    /\ IF ~rxIntAlive[s]
       THEN UNCHANGED chanLen
       ELSE /\ chanLen[s] < CMD_CHANNEL_SIZE
            /\ chanLen' = [chanLen EXCEPT ![s] = @ + 1]
    /\ UNCHANGED <<headerVars, components_to_stop, fresh_counter, callerPc, started, threadPc, cfgVars,
                   readVars, ended, itemVars, rxAlive, rxIntAlive, handle,
                   childVars>>

\* the caller drops the Sender without (further) sends
CallerDrop(s) ==
    /\ handle[s] = "held"
    /\ ~sendBlocked[s]
    /\ handle' = [handle EXCEPT ![s] = "dropped"]
    /\ UNCHANGED <<headerVars, components_to_stop, fresh_counter, callerPc, started, threadPc, cfgVars,
                   readVars, ended, itemVars, rxAlive, chanLen, rxIntAlive,
                   sendBlocked, childVars>>

\* the consumer drops rx_item
ConsumerDrop(s) ==
    /\ callerPc[s] = "returned"
    /\ rxAlive[s]
    /\ rxAlive' = [rxAlive EXCEPT ![s] = FALSE]
    /\ UNCHANGED <<headerVars, components_to_stop, fresh_counter, callerPc, started, threadPc, cfgVars,
                   readVars, ended, itemVars, cancelVars, childVars>>

(***************************************************************************)
(* Header.                                                                 *)
(***************************************************************************)
\* with_options: reverse is set by a layout that starts with "reverse", the
\* header replaced by the lines of a non-empty options.header
WithOptions ==
    /\ \E n \in 0..MaxHeader, r \in BOOLEAN :
          /\ header' = IF n = 0 THEN header ELSE n
          /\ reverse' = (reverse \/ r)
    /\ UNCHANGED <<item_pool, reserved, canvas, draw_result, rows,
                   components_to_stop, fresh_counter, callerPc, started,
                   threadPc, cfgVars, readVars, ended, itemVars, rxAlive,
                   cancelVars, childVars>>

\* item_pool(&pool): Arc::downgrade of a pool that reserved n items
ItemPool ==
    /\ item_pool = "dangling"
    /\ reserved = <<>>
    /\ \E n \in 0..MaxReserved :
          reserved' = [k \in 1..n |-> TRUE]
    /\ item_pool' = "live"
    /\ UNCHANGED <<header, reverse, canvas, draw_result, rows,
                   components_to_stop, fresh_counter, callerPc, started,
                   threadPc, cfgVars, readVars, ended, itemVars, rxAlive,
                   cancelVars, childVars>>

\* the last Arc of a reserved item is dropped: its Weak upgrades no more
ReleaseItem ==
    /\ \E k \in 1..Len(reserved) :
          /\ reserved[k]
          /\ reserved' = [reserved EXCEPT ![k] = FALSE]
    /\ UNCHANGED <<header, reverse, item_pool, canvas, draw_result, rows,
                   components_to_stop, fresh_counter, callerPc, started,
                   threadPc, cfgVars, readVars, ended, itemVars, rxAlive,
                   cancelVars, childVars>>

\* the last Arc of the pool is dropped
ReleasePool ==
    /\ item_pool = "live"
    /\ item_pool' = "dangling"
    /\ UNCHANGED <<header, reverse, reserved, canvas, draw_result, rows,
                   components_to_stop, fresh_counter, callerPc, started,
                   threadPc, cfgVars, readVars, ended, itemVars, rxAlive,
                   cancelVars, childVars>>

\* lines_of_header: Weak::upgrade(&self.item_pool).map(|upgraded|
\* self.header.len() + upgraded.reserved().len()).unwrap_or_else(|| self.
\* header.len())
lines_of_header ==
    IF item_pool = "live" THEN header + Len(reserved) ELSE header

\* adjust_row
adjust_row(index, screen_height) ==
    IF reverse THEN index ELSE screen_height - index - 1

\* self.upgrade().reserved().iter().filter_map(Weak::upgrade): the reserved
\* items that can be upgraded, none when the pool is gone (unwrap_or_default)
Upgraded ==
    IF item_pool = "live" THEN SelectSeq(reserved, LAMBDA live : live) ELSE <<>>

\* Draw::draw on a canvas of the given size
Draw ==
    /\ \E screen_width \in 0..MaxScreen, screen_height \in 0..MaxScreen :
          /\ canvas' = <<screen_width, screen_height>>
          /\ IF screen_width < 3
             THEN draw_result' = "width" /\ rows' = <<>>
             ELSE IF screen_height < lines_of_header
             THEN draw_result' = "height" /\ rows' = <<>>
             ELSE /\ draw_result' = "ok"
                  /\ rows' = [idx \in 1..Len(Upgraded) |->
                         adjust_row((idx - 1) + header, screen_height)]
    /\ UNCHANGED <<header, reverse, item_pool, reserved,
                   components_to_stop, fresh_counter, callerPc, started,
                   threadPc, cfgVars, readVars, ended, itemVars, rxAlive,
                   cancelVars, childVars>>

(***************************************************************************)
(* Specifications.                                                         *)
(***************************************************************************)
\* The header widget over a pool whose reserved items come and go.
NextHeader ==
    WithOptions \/ ItemPool \/ ReleaseItem \/ ReleasePool \/ Draw

SpecHeader == Init /\ [][NextHeader]_vars

\* a step of the thread of a Pipe source
PipeStep(s) ==
    \/ PipeAdd(s) \/ PipeStore(s)
    \/ FillBuf(s) \/ ReadUntil(s) \/ Decode(s) \/ Publish(s)
    \/ PipeSendCancel(s) \/ PipeSub(s)

\* a step of the watcher thread of a Command source
WatcherStep(s) ==
    \/ WatcherAdd(s) \/ WatcherStore(s) \/ WatcherRecv(s) \/ WatcherKill(s)
    \/ WatcherWait(s) \/ WatcherErr(s) \/ WatcherEmit(s) \/ WatcherSub(s)
    \/ WatcherExit(s)

\* a step of the thread spawned for source s
ThreadStep(s) == PipeStep(s) \/ WatcherStep(s)

\* a step of the caller, the consumer or the child of source s
EnvStep(s, limit) ==
    \/ Return(s) \/ CallerSend(s, limit) \/ CallerDrop(s)
    \/ ConsumerDrop(s) \/ ChildExit(s)

\* Several sources on one counter, each with a small input.
Next ==
    \E s \in Sources :
        \/ CallPipe(s, SmallInputs, {NEWLINE})
        \/ Invoke(s, {EchoFail}, BOOLEAN)
        \/ InvokeSpawnFails(s)
        \/ ThreadStep(s)
        \/ EnvStep(s, MaxSends)

Spec == Init /\ [][Next]_vars

\* One source, every input up to MaxLen and both terminators.
NextIngest ==
    \/ CallPipe(1, AllInputs, Terminators)
    \/ Invoke(1, Commands, BOOLEAN)
    \/ InvokeSpawnFails(1)
    \/ ThreadStep(1)
    \/ EnvStep(1, MaxSends)

SpecIngest == Init /\ [][NextIngest]_vars

\* One source whose caller sends until the cancellation channel is full.
NextCancel ==
    \/ CallPipe(1, {<<97, NEWLINE>>}, {NEWLINE})
    \/ Invoke(1, {EchoFail}, BOOLEAN)
    \/ ThreadStep(1)
    \/ Return(1)
    \/ CallerSend(1, CMD_CHANNEL_SIZE + 1)
    \/ CallerSendWake(1)
    \/ CallerDrop(1)
    \/ ChildExit(1)

\* One command source.
NextWatch ==
    \/ Invoke(1, Commands, BOOLEAN)
    \/ InvokeSpawnFails(1)
    \/ WatcherStep(1)
    \/ EnvStep(1, MaxSends)

\* The inputs of the streams opened by of_bufread: two lines, and one
\* without newline.
BufreadInputs == {<<97, NEWLINE, 97, NEWLINE>>, <<97>>}

\* One stream opened by of_bufread on an option built with ansi, with_nth and
\* nth.
NextBufread ==
    \/ Ansi(1)
    \/ WithNth(1, {<<50>>, <<120>>})
    \/ Nth(1, {<<50>>, <<120>>})
    \/ OfBufread(1, BufreadInputs, {NEWLINE})
    \/ PipeStep(1)
    \/ Return(1)
    \/ ConsumerDrop(1)

SpecBufread == Init /\ [][NextBufread]_vars

\* The option built by with_nth on every selector string up to MaxSel and by
\* nth on a few (both run the same code), and the path of_bufread takes on it.
NextOption ==
    \/ Ansi(1)
    \/ WithNth(1, SelectorStrings)
    \/ Nth(1, {<<>>, <<50>>, <<120>>, <<52, COMMA, 50>>})
    \/ OfBufread(1, {<<97, NEWLINE>>}, {NEWLINE})

SpecOption == Init /\ [][NextOption]_vars

\* The operating system schedules every thread: the spawned thread, the
\* caller in its busy wait, and the caller parked in a send once the channel
\* wakes it.  Nothing obliges the caller to send or to drop, the consumer to
\* drop, or the child to exit.
Fairness ==
    \A s \in Sources :
        WF_vars(ThreadStep(s)) /\ WF_vars(Return(s)) /\ WF_vars(CallerSendWake(s))

SpecCancel == Init /\ [][NextCancel]_vars /\ Fairness

SpecWatch == Init /\ [][NextWatch]_vars /\ Fairness

(***************************************************************************)
(* Claims.                                                                 *)
(***************************************************************************)
\* the spawned thread of s has ended: it returned, or it panicked
ThreadEnded(s) == threadPc[s] \in {"done", "panicked"}

\* the thread of s is past its fetch_sub
PastSub(s) == threadPc[s] \in {"w_exit", "done"}

\* C1: whenever no call is in its busy wait, the shared counter is zero if
\* and only if every thread spawned so far has completed its work (it is
\* past its fetch_sub, child killed and waited for) or has ended, whatever
\* the way it ended.
C1_CounterZeroIffAllCompleted ==
    (\A s \in Sources : callerPc[s] # "spin") =>
        (components_to_stop = 0 <=>
            \A s \in Sources : threadPc[s] = "none" \/ PastSub(s) \/ ThreadEnded(s))

\* C5: once read_and_collect_from_command has returned for a source, its
\* thread has done its fetch_add, and the counter counts every returned
\* source whose thread is not yet past its fetch_sub.
C5_StartupRendezvous ==
    /\ \A s \in Sources :
          callerPc[s] = "returned" => threadPc[s] \notin {"none", "p_add", "w_add"}
    /\ components_to_stop >=
          Cardinality({s \in Sources : callerPc[s] = "returned" /\ ~PastSub(s)})

\* C5 witness: both calls have returned, both threads are at work, one of a
\* Pipe and one of a Command, and the counter reads 2.
C5_Witness ==
    /\ \A s \in Sources : callerPc[s] = "returned"
    /\ \E s \in Sources : threadPc[s] = "fill"
    /\ \E s \in Sources : threadPc[s] = "w_recv"
    /\ components_to_stop = 2

\* the terminator-delimited segments of buf: the bytes before each
\* terminator t, and the bytes after the last one when there are any
RECURSIVE Segments(_, _)
Segments(buf, t) ==
    IF buf = <<>> THEN <<>>
    ELSE LET i == MemChr(t, buf)
         IN  IF i = 0 THEN <<buf>>
             ELSE <<SubSeq(buf, 1, i - 1)>> \o Segments(Drop(buf, i), t)

\* the bytes of buf after its last terminator t
RECURSIVE Trailing(_, _)
Trailing(buf, t) ==
    LET i == MemChr(t, buf)
    IN  IF i = 0 THEN buf ELSE Trailing(Drop(buf, i), t)

\* the number of terminators t in buf
CountOf(buf, t) == Cardinality({i \in 1..Len(buf) : buf[i] = t})

\* ingest_loop of source s has read its whole input to the end, with no read
\* error other than Interrupted and with the consumer alive throughout
ReadToEnd(s) ==
    kind[s] = "Pipe" /\ ended[s] = "eof" /\ ~hardErr[s] /\ rxAlive[s]

\* C7: when ingest_loop has read its input to the end with the consumer
\* alive, the items it published are the terminator-delimited segments of
\* the input, one item per segment, in input order, for the configured
\* terminator (newline or NUL).
C7_OneItemPerSegment ==
    \A s \in Sources :
        ReadToEnd(s) => items[s] = Segments(input[s], line_ending[s])

\* what ingest_loop publishes when the whole input arrives in one read:
\* fill_buf returns it all, read_until finds the end of input, the buffer is
\* decoded and split by lines(); the next round finds nothing and ends
UnsplitItems(inp) ==
    IF inp = <<>> \/ ~Utf8Valid(inp) THEN <<>> ELSE Lines(inp)

\* C8: when ingest_loop has read its input to the end with no read error and
\* the consumer alive, the items it published are those of the unsplit read
\* of the same input, however the reads split it.
C8_BufferBoundaryInsensitive ==
    \A s \in Sources :
        (ReadToEnd(s) /\ errs[s] = 0) => items[s] = UnsplitItems(input[s])

\* C10: at the end of the input, a non-empty trailing segment without
\* terminator is published as one item of its own, the last one; an empty one
\* (input empty or ending at a terminator) gives no item.
C10_TrailingSegment ==
    \A s \in Sources :
        ReadToEnd(s) =>
            LET tr == Trailing(input[s], line_ending[s])
                n == CountOf(input[s], line_ending[s])
            IN  IF tr # <<>>
                THEN Len(items[s]) = n + 1 /\ items[s][Len(items[s])] = tr
                ELSE Len(items[s]) = n

\* With the default terminator the three statements above hold of the code
\* (str::lines splits at the newline): they fail only for a terminator other
\* than the newline.
NewlineIngestCorrect ==
    \A s \in Sources :
        (ReadToEnd(s) /\ line_ending[s] = NEWLINE) =>
            /\ items[s] = Segments(input[s], NEWLINE)
            /\ errs[s] = 0 => items[s] = UnsplitItems(input[s])
            /\ LET tr == Trailing(input[s], NEWLINE)
                   n == CountOf(input[s], NEWLINE)
               IN  IF tr # <<>>
                   THEN Len(items[s]) = n + 1 /\ items[s][Len(items[s])] = tr
                   ELSE Len(items[s]) = n

\* C3: a command source whose child has exited (its standard output is at
\* its end) and whose watcher has not ended never depends on the caller:
\* some step of a thread of the source is possible, so the watcher wakes up
\* with no send on, and no drop of, the cancellation handle.
C3_WatcherWakesWithoutCaller ==
    \A s \in Sources :
        (/\ kind[s] = "Command"
         /\ callerPc[s] = "returned"
         /\ childState[s] = "zombie"
         /\ threadPc[s] # "done") => ENABLED ThreadStep(s)

\* C4: when the watcher of a command source has ended with the consumer
\* alive, the items published begin with one item per line of the child's
\* standard output, in order (the lines of its standard error come after).
C4_CommandPublishesStdout ==
    \A s \in Sources :
        (kind[s] = "Command" /\ threadPc[s] = "done" /\ rxAlive[s]) =>
            LET out == Lines(cmd[s].stdout)
            IN  /\ Len(items[s]) >= Len(out)
                /\ SubSeq(items[s], 1, Len(out)) = out

\* what the ingestion of source s reads, holds and has published
IngestState(s) ==
    <<threadPc[s], pending[s], items[s], bytes_buffer[s], pos[s], rbuf[s],
      errs[s], ended[s]>>

\* C9: a publish attempt made after the consumer dropped rx_item ends
\* ingest_loop at once, without panic; from then on nothing is published or
\* built and the source is not read, and the Pipe thread goes on to send
\* its cancel signal, to decrement the counter by one, and to end.
C9_StopsAtFailedPublish ==
    /\ [][\A s \in Sources :
            /\ (/\ threadPc[s] = "publish"
                /\ pending[s] # <<>>
                /\ ~rxAlive[s]
                /\ IngestState(s)' # IngestState(s))
               => /\ ended'[s] = "send_failed"
                  /\ threadPc'[s] = "p_send"
            /\ (~rxAlive[s] \/ ended[s] = "send_failed") => items'[s] = items[s]
            /\ ended[s] = "send_failed" =>
                  /\ <<pending[s], bytes_buffer[s], pos[s], rbuf[s], errs[s], ended[s]>>'
                        = <<pending[s], bytes_buffer[s], pos[s], rbuf[s], errs[s], ended[s]>>
                  /\ \/ threadPc'[s] = threadPc[s]
                     \/ threadPc[s] = "p_send" /\ threadPc'[s] = "p_sub"
                     \/ /\ threadPc[s] = "p_sub" /\ threadPc'[s] = "done"
                        /\ components_to_stop' = components_to_stop - 1
         ]_vars
    /\ [](\A s \in Sources :
            ended[s] = "send_failed" => threadPc[s] \in {"p_send", "p_sub", "done"})

\* C9 witness: the consumer dropped rx_item mid-stream (an item was
\* published), the next publish failed with input still unread, and the thread
\* has ended with the counter back at zero.
C9_Witness ==
    \E s \in Sources :
        /\ ended[s] = "send_failed"
        /\ threadPc[s] = "done"
        /\ items[s] # <<>>
        /\ pending[s] # <<>>
        /\ pos[s] < Len(input[s])
        /\ components_to_stop = 0

C11_RawIffSimple ==
    /\ [](\A s \in Sources :
            entry[s] = "of_bufread" =>
                /\ mode[s] \in {"Raw", "Build"}
                /\ mode[s] = "Raw" <=>
                      (/\ use_ansi_color[s] = FALSE
                       /\ transform_fields[s] = <<>>
                       /\ matching_fields[s] = <<>>)
                /\ \A k \in 1..Len(tags[s]) : tags[s][k] = mode[s]
                /\ Len(tags[s]) = Len(items[s]))
    /\ [][\A s \in Sources :
            mode[s] # "none" =>
                /\ mode'[s] = mode[s]
                /\ use_ansi_color'[s] = use_ansi_color[s]
                /\ transform_fields'[s] = transform_fields[s]
                /\ matching_fields'[s] = matching_fields[s]]_vars

\* C11 witness: a stream of two built items, built because of the matching
\* fields alone.
C11_Witness ==
    \E s \in Sources :
        /\ entry[s] = "of_bufread"
        /\ ~use_ansi_color[s]
        /\ transform_fields[s] = <<>>
        /\ matching_fields[s] # <<>>
        /\ tags[s] = <<"Build", "Build">>

\* the tokens of str that from_str accepts, as pairs <<first, last>> of
\* positions: comma-free, bounded by commas or by the ends of str
AcceptedSpans(str) ==
    {sp \in (1..Len(str)) \X (1..Len(str)) :
        /\ sp[1] <= sp[2]
        /\ \A k \in sp[1]..sp[2] : str[k] # COMMA
        /\ sp[1] = 1 \/ str[sp[1] - 1] = COMMA
        /\ sp[2] = Len(str) \/ str[sp[2] + 1] = COMMA
        /\ FieldRangeFromStr(SubSeq(str, sp[1], sp[2]))}

\* fields holds the accepted tokens of str and nothing else, in the order of
\* str
KeepsAccepted(fields, str) ==
    /\ Len(fields) = Cardinality(AcceptedSpans(str))
    /\ \A sp \in AcceptedSpans(str) :
          LET rank == Cardinality({o \in AcceptedSpans(str) : o[1] <= sp[1]})
          IN  fields[rank] = SubSeq(str, sp[1], sp[2])

\* the selector the last call of with_nth / nth set
LastSet(s) ==
    IF last_call[s].method = "with_nth" THEN transform_fields[s]
    ELSE matching_fields[s]

\* C14 as stated: after with_nth / nth on any selector string, the empty
\* one included, the selector holds the accepted tokens of the string in
\* order and nothing else (it is empty when none is accepted).
C14_SelectorOfEveryString ==
    \A s \in Sources :
        last_call[s].method # "none" => KeepsAccepted(LastSet(s), last_call[s].arg)

\* C14 amended: no call of with_nth / nth fails; after a call on a non-empty
\* selector string the selector holds the accepted tokens of the string in
\* order and nothing else, so it is empty when every token is rejected, and
\* a stream opened with ANSI off and both selectors empty takes the raw
\* path; a call on the empty string leaves the selector as it was.
C14_SelectorOfNonEmptyString ==
    /\ [](\A s \in Sources :
            /\ callerPc[s] # "panicked"
            /\ (last_call[s].method # "none" /\ last_call[s].arg # <<>>)
                  => KeepsAccepted(LastSet(s), last_call[s].arg)
            /\ (/\ entry[s] = "of_bufread"
                /\ ~use_ansi_color[s]
                /\ transform_fields[s] = <<>>
                /\ matching_fields[s] = <<>>) => mode[s] = "Raw")
    /\ [][\A s \in Sources :
            (last_call'[s] # last_call[s] /\ last_call'[s].arg = <<>>)
                => /\ transform_fields'[s] = transform_fields[s]
                   /\ matching_fields'[s] = matching_fields[s]]_vars

\* C14 witness: with_nth("x") on an option whose transform_fields were set
\* emptied them, and the stream opened on it took the raw path.
C14_Witness ==
    \E s \in Sources :
        /\ last_call[s] = [method |-> "with_nth", arg |-> <<120>>]
        /\ transform_fields[s] = <<>>
        /\ matching_fields[s] = <<>>
        /\ mode[s] = "Raw"

\* C12: when the command cannot be spawned the call panics before it spawns
\* a thread: the source never has a thread, a child or a started flag set,
\* the call made no busy wait (it fails from "idle"), and the failing step
\* leaves the shared counter as it was.
C12_SpawnFailureLeavesNothing ==
    /\ [](\A s \in Sources :
            callerPc[s] = "panicked" =>
                /\ threadPc[s] = "none"
                /\ childState[s] = "none"
                /\ ~started[s]
                /\ handle[s] = "none")
    /\ [][\A s \in Sources :
            (callerPc'[s] = "panicked" /\ callerPc[s] # "panicked") =>
                /\ callerPc[s] = "idle"
                /\ components_to_stop' = components_to_stop]_vars

\* C12 witness: the spawn of one source failed while the thread of the other
\* is counted.
C12_Witness ==
    \E s \in Sources :
        /\ callerPc[s] = "panicked"
        /\ components_to_stop = 1

\* the items of source s that are lines of the child's standard error
StderrItems(s) == SelectSeq(tags[s], LAMBDA g : g = "String")

\* C13: the watcher sends the lines of the child's standard error as items
\* if and only if show_error is set and the command failed (it exited with
\* a status other than zero): none with show_error false, none for a command
\* that did not fail, one killed while it ran included, and all of them, one
\* item per line, once the watcher has ended on a failed command with
\* show_error set and the consumer alive.
C13_StderrIffFailure ==
    \A s \in Sources :
        kind[s] = "Command" =>
            /\ ~show_error[s] => StderrItems(s) = <<>>
            /\ childStatus[s] # "fail" => StderrItems(s) = <<>>
            /\ (/\ threadPc[s] = "done"
                /\ rxAlive[s]
                /\ show_error[s]
                /\ childStatus[s] = "fail")
                  => items[s] = Lines(Utf8Lossy(childStderr[s]))

\* the reserved items the header can still show
LiveReserved ==
    IF item_pool = "live"
    THEN Cardinality({k \in 1..Len(reserved) : reserved[k]})
    ELSE 0

\* C15: a draw on a canvas at least 3 wide and high enough for the fixed
\* header and the reserved items that are still alive returns Ok and prints
\* one row per live reserved item, none for the released ones, whatever has
\* been released, the pool included.
C15_DrawToleratesReleased ==
    [][(/\ canvas'[1] >= 3
        /\ canvas'[2] >= header + LiveReserved)
           => /\ draw_result' = "ok"
              /\ Len(rows') = LiveReserved]_<<canvas, draw_result, rows>>

\* C16: the counter is incremented before any work of a source with side
\* effects begins, the spawn of the child included, and decremented only after
\* the cleanup; hence whenever the counter is 0 no child of any source is
\* running or waiting to be reaped.
C16_CounterZeroMeansNoChild ==
    components_to_stop = 0
        => \A s \in Sources : childState[s] \notin {"running", "zombie"}

\* C17: after a read of the source failed with an error other than
\* Interrupted, in fill_buf or in read_until, the loop has ended: the thread
\* is at no read of the source any more.
C17_ReadErrorEndsLoop ==
    \A s \in Sources :
        hardErr[s] => threadPc[s] \notin {"fill", "read_until"}

\* C18: the additional read up to the next terminator is issued only when
\* the fill ended in the middle of a line: the thread is never at read_until
\* with a buffer that ends with the terminator, whose complete lines would
\* wait for further input.
C18_ReadUntilOnlyMidLine ==
    \A s \in Sources :
        threadPc[s] = "read_until"
            => \/ bytes_buffer[s] = <<>>
               \/ bytes_buffer[s][Len(bytes_buffer[s])] # line_ending[s]

\* C19: for a Pipe source the returned Sender is inert: once the call has
\* returned no send is ever buffered or blocked (the thread sees none of
\* them), and a thread that has ended has ended by end of input, by a read
\* error or by a failed publish, never by anything done with the handle.
C19_PipeHandleInert ==
    \A s \in Sources :
        kind[s] = "Pipe" =>
            /\ callerPc[s] = "returned" =>
                   (~rxIntAlive[s] /\ chanLen[s] = 0 /\ ~sendBlocked[s])
            /\ ThreadEnded(s) => ended[s] \in {"eof", "read_error", "send_failed"}

=============================================================================
